---- MODULE Spec2Model ----
(***************************************************************************)
(* Model of hyde/site.py: the site-model tree (Node, Resource, RootNode).  *)
(*                                                                         *)
(* Paths are sequences of path segments.  Nodes and resources are objects  *)
(* with identity: they live in two arenas (sequences) and are referred to  *)
(* by their index; 0 stands for Python's None.  The root node is object 1. *)
(***************************************************************************)
EXTENDS Integers, Sequences, FiniteSets, TLC

VARIABLES nodes, resources, node_map, resource_map, fs, op, recv, arg, ret, err, log

vars == <<nodes, resources, node_map, resource_map, fs, op, recv, arg, ret, err, log>>

(* ------------------------------ bounds --------------------------------- *)
MaxDepth == 3
MaxObjects == 4
MaxEntries == 4
MaxChildObjects == 2
MaxSiteEntries == 2

(* ------------------------------ paths ---------------------------------- *)
Seg == {"a", "b"}

RootPath == <<"r">>

None == 0

(* the outcome of a loop that never ends *)
Diverged == -1

RootId == 1

InsidePaths == {RootPath \o s : s \in UNION {[1..n -> Seg] : n \in 1..MaxDepth}}

OutsidePaths == {<<>>, <<"x">>, <<"x", "a">>}

Paths == InsidePaths \cup OutsidePaths \cup {RootPath}

(* hyde.fs: Folder.parent / File.parent (dirname); dirname of "/" is "/" *)
Parent(p) == IF p = <<>> THEN <<>> ELSE SubSeq(p, 1, Len(p) - 1)

(* hyde.fs: FS.is_descendant_of, strict ancestry *)
is_descendant_of(p, ancestor) ==
    /\ Len(p) > Len(ancestor)
    /\ SubSeq(p, 1, Len(ancestor)) = ancestor

(* ------------------------------ objects -------------------------------- *)
NewNode_own_root(m, source_folder, parent) ==
    [source_folder |-> source_folder,
     parent        |-> parent,
     root          |-> Len(m.nodes) + 1,
     child_nodes   |-> <<>>,
     resources     |-> <<>>]

(* Node.__init__ *)
NewNode(m, source_folder, parent) ==
    [source_folder |-> source_folder,
     parent        |-> parent,
     root          |-> IF parent # None THEN m.nodes[parent].root
                       ELSE Len(m.nodes) + 1,
     child_nodes   |-> <<>>,
     resources     |-> <<>>]

(* Resource.__init__ *)
NewResource(source_file, node) == [source_file |-> source_file, node |-> node]

(* The model held by one RootNode, as a value. *)
M == [nodes |-> nodes, resources |-> resources, node_map |-> node_map,
      resource_map |-> resource_map, log |-> <<>>]

Result(m, r, e) == [m |-> m, ret |-> r, err |-> e]

Logged(m, msg, path) == [m EXCEPT !.log = Append(@, <<msg, path>>)]

Node_add_child_node_unchecked(m, self, folder) ==
    LET id == Len(m.nodes) + 1
        node == NewNode(m, folder, self)
    IN Result([m EXCEPT !.nodes =
                   Append([@ EXCEPT ![self].child_nodes = Append(@, id)], node)],
              id, "none")

(* Node.add_child_node *)
Node_add_child_node(m, self, folder) ==
    IF Parent(folder) # m.nodes[self].source_folder
    THEN Result(m, None, "StructuralViolation")
    ELSE LET id == Len(m.nodes) + 1
             node == NewNode(m, folder, self)
         IN Result([m EXCEPT !.nodes =
                        Append([@ EXCEPT ![self].child_nodes = Append(@, id)],
                               node)],
                   id, "none")

Node_add_child_resource_noappend(m, self, afile) ==
    IF Parent(afile) # m.nodes[self].source_folder
    THEN Result(m, None, "StructuralViolation")
    ELSE Result([m EXCEPT !.resources = Append(@, NewResource(afile, self))],
                Len(m.resources) + 1, "none")

(* Node.add_child_resource *)
Node_add_child_resource(m, self, afile) ==
    IF Parent(afile) # m.nodes[self].source_folder
    THEN Result(m, None, "StructuralViolation")
    ELSE LET id == Len(m.resources) + 1
         IN Result([m EXCEPT !.resources = Append(@, NewResource(afile, self)),
                             !.nodes[self].resources = Append(@, id)],
                   id, "none")

RECURSIVE walk_children_first(_, _), WalkChildrenFirst(_, _)
walk_children_first(m, self) ==
    WalkChildrenFirst(m, m.nodes[self].child_nodes) \o <<self>>

WalkChildrenFirst(m, children) ==
    IF children = <<>> THEN <<>>
    ELSE walk_children_first(m, Head(children)) \o WalkChildrenFirst(m, Tail(children))

(* Node.walk: self first, then each child's walk in child_nodes order *)
RECURSIVE walk(_, _), WalkChildren(_, _)
walk(m, self) == <<self>> \o WalkChildren(m, m.nodes[self].child_nodes)

(* Node.walk, the loop "for child in self.child_nodes" *)
WalkChildren(m, children) ==
    IF children = <<>> THEN <<>>
    ELSE walk(m, Head(children)) \o WalkChildren(m, Tail(children))

(* Node.walk_resources, the loop "for resource in node.resources" over a *)
(* sequence of nodes                                                     *)
RECURSIVE ResourcesOf(_, _)
ResourcesOf(m, ns) ==
    IF ns = <<>> THEN <<>>
    ELSE m.nodes[Head(ns)].resources \o ResourcesOf(m, Tail(ns))

walk_resources_own(m, self) == m.nodes[self].resources

(* Node.walk_resources *)
walk_resources(m, self) == ResourcesOf(m, walk(m, self))

node_from_path_table_only(m, path) ==
    IF path \in DOMAIN m.node_map THEN m.node_map[path] ELSE None

(* RootNode.node_from_path *)
node_from_path(m, path) ==
    IF path = m.nodes[RootId].source_folder THEN RootId
    ELSE IF path \in DOMAIN m.node_map THEN m.node_map[path]
    ELSE None

(* RootNode.resource_from_path *)
resource_from_path(m, path) ==
    IF path \in DOMAIN m.resource_map THEN m.resource_map[path] ELSE None

Climb_once(m, p_folder, hierarchy) ==
    [hierarchy |-> Append(hierarchy, p_folder),
     parent    |-> node_from_path(m, Parent(p_folder))]

(* RootNode.add_node, the upward search: "while not parent".  When the  *)
(* search stands on a directory that is its own parent and has no node,  *)
(* every further iteration repeats this one: the loop never ends.        *)
RECURSIVE Climb(_, _, _)
Climb(m, p_folder, hierarchy) ==
    LET h == Append(hierarchy, p_folder)
        pp == Parent(p_folder)
        parent == node_from_path(m, pp)
    IN IF parent # None THEN [hierarchy |-> h, parent |-> parent]
       ELSE IF pp = p_folder THEN [hierarchy |-> h, parent |-> Diverged]
       ELSE Climb(m, pp, h)

Reverse_forgotten(s) == s

(* list.reverse() *)
Reverse(s) == [i \in 1..Len(s) |-> s[Len(s) + 1 - i]]

RECURSIVE Materialize_unregistered(_, _, _)
Materialize_unregistered(m, node, hierarchy) ==
    IF hierarchy = <<>> THEN Result(m, node, "none")
    ELSE LET h_folder == Head(hierarchy)
             r == Node_add_child_node(m, node, h_folder)
         IN IF r.err # "none" THEN r
            ELSE Materialize_unregistered(
                   Logged(IF Len(hierarchy) = 1
                          THEN [r.m EXCEPT !.node_map = (h_folder :> r.ret) @@ @]
                          ELSE r.m,
                          "Added node", h_folder),
                   r.ret, Tail(hierarchy))

RECURSIVE Materialize_at_anchor(_, _, _)
Materialize_at_anchor(m, node, hierarchy) ==
    IF hierarchy = <<>> THEN Result(m, node, "none")
    ELSE LET h_folder == Head(hierarchy)
             r == Node_add_child_node(m, node, h_folder)
         IN IF r.err # "none" THEN r
            ELSE LET rest == Materialize_at_anchor(
                               Logged([r.m EXCEPT !.node_map = (h_folder :> r.ret) @@ @],
                                      "Added node", h_folder),
                               node, Tail(hierarchy))
                 IN IF rest.err # "none" \/ Tail(hierarchy) # <<>> THEN rest
                    ELSE Result(rest.m, r.ret, "none")

(* RootNode.add_node, the loop "for h_folder in hierarchy" *)
RECURSIVE Materialize(_, _, _)
Materialize(m, node, hierarchy) ==
    IF hierarchy = <<>> THEN Result(m, node, "none")
    ELSE LET h_folder == Head(hierarchy)
             r == Node_add_child_node(m, node, h_folder)
         IN IF r.err # "none" THEN r
            ELSE Materialize(
                   Logged([r.m EXCEPT !.node_map = (h_folder :> r.ret) @@ @],
                          "Added node", h_folder),
                   r.ret, Tail(hierarchy))

RootNode_add_node_always_new(m, folder) ==
    IF ~is_descendant_of(folder, m.nodes[RootId].source_folder)
    THEN Result(m, None, "OutOfHierarchy")
    ELSE LET c == Climb(m, folder, <<>>)
         IN Materialize(m, c.parent, Reverse(c.hierarchy))

RootNode_add_node_lenient(m, folder) ==
    LET node == node_from_path(m, folder)
    IN IF node # None
       THEN Result(Logged(m, "Node exists", folder), node, "none")
       ELSE IF ~is_descendant_of(folder, m.nodes[RootId].source_folder)
       THEN Result(m, RootId, "none")
       ELSE LET c == Climb(m, folder, <<>>)
            IN Materialize(m, c.parent, Reverse(c.hierarchy))

(* RootNode.add_node *)
RootNode_add_node(m, folder) ==
    LET node == node_from_path(m, folder)
    IN IF node # None
       THEN Result(Logged(m, "Node exists", folder), node, "none")
       ELSE IF ~is_descendant_of(folder, m.nodes[RootId].source_folder)
       THEN Result(m, None, "OutOfHierarchy")
       ELSE LET c == Climb(m, folder, <<>>)
            IN IF c.parent = Diverged THEN Result(m, Diverged, "Diverged")
               ELSE Materialize(m, IF c.parent # None THEN c.parent ELSE RootId,
                                Reverse(c.hierarchy))

RootNode_add_resource_at_root(m, afile) ==
    IF ~is_descendant_of(afile, m.nodes[RootId].source_folder)
    THEN Result(m, None, "OutOfHierarchy")
    ELSE LET r == Node_add_child_resource(m, RootId, afile)
         IN IF r.err # "none" THEN r
            ELSE Result(Logged([r.m EXCEPT !.resource_map = (afile :> r.ret) @@ @],
                               "Added resource", afile),
                        r.ret, "none")

(* RootNode.add_resource *)
RootNode_add_resource(m, afile) ==
    LET resource == resource_from_path(m, afile)
        m1 == IF resource # None THEN Logged(m, "Resource exists", afile) ELSE m
    IN IF ~is_descendant_of(afile, m1.nodes[RootId].source_folder)
       THEN Result(m1, None, "OutOfHierarchy")
       ELSE LET found == node_from_path(m1, Parent(afile))
                n == IF found # None THEN Result(m1, found, "none")
                     ELSE RootNode_add_node(m1, Parent(afile))
            IN IF n.err # "none" THEN n
               ELSE LET r == Node_add_child_resource(n.m, n.ret, afile)
                    IN IF r.err # "none" THEN r
                       ELSE Result(
                              Logged([r.m EXCEPT !.resource_map =
                                          (afile :> r.ret) @@ @],
                                     "Added resource", afile),
                              r.ret, "none")

(* --------------------------- backing filesystem ------------------------ *)
(* A filesystem: its directories (the root directory among them when it   *)
(* exists) and its files.                                                 *)
NoFs == [dirs |-> {}, files |-> {}]

(* the entries that can be created next in filesystem f *)
NewEntries(f) ==
    {p \in {Append(d, x) : d \in f.dirs, x \in Seg} :
        /\ Len(p) <= Len(RootPath) + MaxDepth
        /\ p \notin f.dirs \cup f.files}

RECURSIVE FsUpTo(_)
FsUpTo(k) ==
    IF k = 0 THEN {[dirs |-> {RootPath}, files |-> {}]}
    ELSE LET P == FsUpTo(k - 1)
         IN P \cup UNION {{[f EXCEPT !.dirs = @ \cup {p}] : p \in NewEntries(f)} \cup
                          {[f EXCEPT !.files = @ \cup {p}] : p \in NewEntries(f)}
                          : f \in P}

FsSet == {NoFs} \cup FsUpTo(MaxEntries)

(* hyde.fs: Folder.exists *)
exists(f, path) == path \in f.dirs

(* hyde.fs: Folder.walker, the entries visited below (and including) the  *)
(* walked folder                                                          *)
WalkEvents(f) ==
    {<<"folder", d>> : d \in f.dirs} \cup {<<"file", a>> : a \in f.files}

RECURSIVE Orders(_)
Orders(S) ==
    IF S = {} THEN {<<>>}
    ELSE UNION {{<<e>> \o t : t \in Orders(S \ {e})} : e \in S}

(* hyde.fs: Folder.child *)
child(folder, name) == Append(folder, name)

(* Node.contains_resource: File(...).exists *)
contains_resource(m, f, self, resource_name) ==
    child(m.nodes[self].source_folder, resource_name) \in f.files

get_resource_table_only(m, f, self, resource_name) ==
    resource_from_path(m, child(m.nodes[self].source_folder, resource_name))

(* Node.get_resource *)
get_resource(m, f, self, resource_name) ==
    IF contains_resource(m, f, self, resource_name)
    THEN resource_from_path(m, child(m.nodes[self].source_folder, resource_name))
    ELSE None

(* RootNode.load, the visitors applied to the walk's entries in turn *)
RECURSIVE Visit(_, _)
Visit(m, order) ==
    IF order = <<>> THEN Result(m, None, "none")
    ELSE LET e == Head(order)
             r == IF e[1] = "folder" THEN RootNode_add_node(m, e[2])
                  ELSE RootNode_add_resource(m, e[2])
         IN IF r.err # "none" THEN Result(r.m, None, r.err)
            ELSE Visit(r.m, Tail(order))

RootNode_load_unchecked(m, f, order) == Visit(m, order)

(* RootNode.load *)
RootNode_load(m, f, order) ==
    IF ~exists(f, m.nodes[RootId].source_folder)
    THEN Result(m, None, "MissingSource")
    ELSE Visit(m, order)

(* ------------------------------ actions -------------------------------- *)
Effect(r, s, o, a) ==
    /\ nodes' = r.m.nodes
    /\ resources' = r.m.resources
    /\ node_map' = r.m.node_map
    /\ resource_map' = r.m.resource_map
    /\ log' = r.m.log
    /\ op' = o
    /\ recv' = s
    /\ arg' = a
    /\ ret' = r.ret
    /\ err' = r.err
    /\ UNCHANGED fs

Apply(r, s, o, a) ==
    /\ Len(r.m.nodes) - 1 + Len(r.m.resources) <= MaxObjects
    /\ Effect(r, s, o, a)

EmptyMap == [x \in {} |-> None]

(* RootNode.__init__ *)
Fresh ==
    /\ nodes = <<NewNode([nodes |-> <<>>], RootPath, None)>>
    /\ resources = <<>>
    /\ node_map = EmptyMap
    /\ resource_map = EmptyMap
    /\ op = "init"
    /\ recv = RootId
    /\ arg = <<>>
    /\ ret = None
    /\ err = "none"
    /\ log = <<>>

Init == Fresh /\ fs = NoFs

AddNode == \E p \in Paths : Apply(RootNode_add_node(M, p), RootId, "add_node", p)

AddResource == \E p \in Paths : Apply(RootNode_add_resource(M, p), RootId, "add_resource", p)

Next == AddNode \/ AddResource

Spec == Init /\ [][Next]_vars

(* load() on a fresh RootNode over any bounded filesystem, the walk       *)
(* delivering its entries in any order                                    *)
InitLoad == Fresh /\ fs \in FsSet

Load ==
    /\ op = "init"
    /\ \E order \in Orders(WalkEvents(fs)) :
          Effect(RootNode_load(M, fs, order), RootId, "load", order)

NextLoad == Load

SpecLoad == InitLoad /\ [][NextLoad]_vars

(* a consumer draining the generator of Node.walk / Node.walk_resources:  *)
(* the call yields a sequence and assigns nothing                        *)
Observe(seq, s, o) ==
    /\ op' = o
    /\ recv' = s
    /\ arg' = <<>>
    /\ ret' = seq
    /\ err' = "none"
    /\ log' = <<>>
    /\ UNCHANGED <<nodes, resources, node_map, resource_map, fs>>

Walk == \E n \in DOMAIN nodes : Observe(walk(M, n), n, "walk")

WalkResources ==
    \E n \in DOMAIN nodes : Observe(walk_resources(M, n), n, "walk_resources")

(* the paths the walked trees are built from: two levels below the root *)
WalkPaths == {p \in InsidePaths : Len(p) <= Len(RootPath) + 2}

GrowNode ==
    \E p \in WalkPaths : Apply(RootNode_add_node(M, p), RootId, "add_node", p)

GrowResource ==
    \E p \in WalkPaths : Apply(RootNode_add_resource(M, p), RootId, "add_resource", p)

NextWalk == GrowNode \/ GrowResource \/ Walk \/ WalkResources

SpecWalk == Init /\ [][NextWalk]_vars

(* a site over a small filesystem: load(), load() again, the root          *)
(* directory disappearing between two loads, and get_resource() at any     *)
(* time                                                                    *)
InitSite == Fresh /\ fs \in {NoFs} \cup FsUpTo(MaxSiteEntries)

Reload ==
    /\ op \in {"load", "vanish"}
    /\ \E order \in Orders(WalkEvents(fs)) :
          Effect(RootNode_load(M, fs, order), RootId, "reload", order)

Vanish ==
    /\ op = "load"
    /\ exists(fs, RootPath)
    /\ fs' = NoFs
    /\ op' = "vanish"
    /\ UNCHANGED <<nodes, resources, node_map, resource_map, recv, arg, ret, err, log>>

GetResource ==
    \E n \in DOMAIN nodes, name \in Seg :
        /\ op' = "get_resource"
        /\ recv' = n
        /\ arg' = <<name>>
        /\ ret' = get_resource(M, fs, n, name)
        /\ err' = "none"
        /\ log' = <<>>
        /\ UNCHANGED <<nodes, resources, node_map, resource_map, fs>>

NextSite == Load \/ Reload \/ Vanish \/ GetResource

SpecSite == InitSite /\ [][NextSite]_vars

(* direct calls of Node.add_child_node / Node.add_child_resource *)
ApplyChild(r, s, o, a) ==
    /\ Len(r.m.nodes) - 1 + Len(r.m.resources) <= MaxChildObjects
    /\ Effect(r, s, o, a)

AddChildNode ==
    \E n \in DOMAIN nodes, p \in Paths :
        ApplyChild(Node_add_child_node(M, n, p), n, "add_child_node", p)

AddChildResource ==
    \E n \in DOMAIN nodes, p \in Paths :
        ApplyChild(Node_add_child_resource(M, n, p), n, "add_child_resource", p)

NextChild == AddChildNode \/ AddChildResource

SpecChild == Init /\ [][NextChild]_vars

(* ------------------------------ helpers ------------------------------- *)
Range(s) == {s[i] : i \in DOMAIN s}

NoDup(s) == \A i, j \in DOMAIN s : s[i] = s[j] => i = j

Prefix(p, n) == SubSeq(p, 1, n)

HasNode(path) == node_from_path(M, path) # None

ModelUnchanged ==
    /\ nodes' = nodes
    /\ resources' = resources
    /\ node_map' = node_map
    /\ resource_map' = resource_map

(* ------------------------------ claims --------------------------------- *)

(* C1: the node table and the tree agree.  Every non-root node reachable   *)
(* from the root through child_nodes has exactly one node_map entry, keyed *)
(* by its own path and mapping to that node; every node_map entry is a     *)
(* reachable node; no node occurs twice in a child_nodes list.             *)
NodeTableInSync ==
    LET w == walk(M, RootId)
    IN /\ NoDup(w)
       /\ \A i \in 2..Len(w) :
             /\ nodes[w[i]].source_folder \in DOMAIN node_map
             /\ node_map[nodes[w[i]].source_folder] = w[i]
       /\ \A p \in DOMAIN node_map :
             /\ node_map[p] \in Range(w) \ {RootId}
             /\ nodes[node_map[p]].source_folder = p
       /\ \A n \in DOMAIN nodes : NoDup(nodes[n].child_nodes)

NodeTableInSyncWitness ==
    /\ Len(nodes) = 4
    /\ \E n \in DOMAIN nodes : Len(nodes[n].child_nodes) >= 2
    /\ \E n \in DOMAIN nodes : nodes[n].parent \notin {None, RootId}
    /\ err = "OutOfHierarchy"

(* C2: the resource table and the tree agree.  Every resource in the       *)
(* resources list of a reachable node has exactly one resource_map entry,  *)
(* keyed by its own path and mapping to that same object; every            *)
(* resource_map entry is an object in its owning node's resources list.    *)
ResourceTableInSync ==
    LET w == walk(M, RootId)
    IN /\ \A i \in DOMAIN w : \A k \in DOMAIN nodes[w[i]].resources :
             LET r == nodes[w[i]].resources[k]
             IN /\ resources[r].source_file \in DOMAIN resource_map
                /\ resource_map[resources[r].source_file] = r
       /\ \A f \in DOMAIN resource_map :
             LET r == resource_map[f]
             IN /\ resources[r].source_file = f
                /\ r \in Range(nodes[resources[r].node].resources)

(* C3: add_node is idempotent.  A call add_node(p) on a path that has a    *)
(* node returns that node and leaves node_map and all child_nodes lists    *)
(* as they were; in particular a call repeated right after a successful    *)
(* add_node(p) returns the same object as the first call.                  *)
AddNodeIdempotent ==
    [][/\ (op' = "add_node" /\ HasNode(arg'))
            => /\ ret' = node_from_path(M, arg')
               /\ err' = "none"
               /\ ModelUnchanged
       /\ (op = "add_node" /\ err = "none" /\ op' = "add_node" /\ arg' = arg)
            => /\ ret' = ret
               /\ err' = "none"
               /\ ModelUnchanged]_vars

AddNodeIdempotentWitness ==
    /\ op = "add_node"
    /\ err = "none"
    /\ log = <<<<"Node exists", arg>>>>
    /\ arg # RootPath
    /\ ret = node_map[arg]

(* C4: re-adding an existing resource path is idempotent.  A call          *)
(* add_resource(f) on a path present in resource_map returns the existing  *)
(* resource and leaves resource_map and the owner's resources list as they *)
(* were.                                                                   *)
AddResourceIdempotent ==
    [][(op' = "add_resource" /\ arg' \in DOMAIN resource_map)
            => /\ ret' = resource_map[arg']
               /\ resource_map' = resource_map
               /\ nodes' = nodes]_vars

(* C5: ancestor materialization.  add_node(p), for p below the root and    *)
(* without a node, whose nearest ancestor with a node is k segments above, *)
(* creates exactly k nodes: one per directory from just below that         *)
(* ancestor down to p, each registered in node_map under its own path and  *)
(* each a child of the node of its parent directory; it returns the node   *)
(* of p; nothing else is created and the older nodes keep their fields,    *)
(* the ancestor alone gaining the first new node as its last child.        *)
AddNodeMaterializes ==
    [][(op' = "add_node" /\ is_descendant_of(arg', RootPath) /\ ~HasNode(arg'))
        => LET p == arg'
               k == CHOOSE j \in 1..Len(p) :
                       /\ HasNode(Prefix(p, Len(p) - j))
                       /\ \A i \in 1..(j - 1) : ~HasNode(Prefix(p, Len(p) - i))
               n0 == Len(nodes)
               anchor == node_from_path(M, Prefix(p, Len(p) - k))
               path(i) == Prefix(p, Len(p) - k + i)
           IN /\ err' = "none"
              /\ Len(nodes') = n0 + k
              /\ \A i \in 1..k :
                    /\ nodes'[n0 + i].source_folder = path(i)
                    /\ nodes'[n0 + i].parent = (IF i = 1 THEN anchor ELSE n0 + i - 1)
                    /\ nodes'[nodes'[n0 + i].parent].source_folder = Parent(path(i))
                    /\ nodes'[n0 + i].child_nodes =
                          (IF i = k THEN <<>> ELSE <<n0 + i + 1>>)
                    /\ nodes'[n0 + i].resources = <<>>
                    /\ node_map'[path(i)] = n0 + i
              /\ ret' = n0 + k
              /\ nodes'[ret'].source_folder = p
              /\ DOMAIN node_map' = DOMAIN node_map \cup {path(i) : i \in 1..k}
              /\ \A q \in DOMAIN node_map : node_map'[q] = node_map[q]
              /\ \A n \in 1..n0 :
                    nodes'[n] = (IF n = anchor
                                 THEN [nodes[n] EXCEPT !.child_nodes = Append(@, n0 + 1)]
                                 ELSE nodes[n])
              /\ resources' = resources
              /\ resource_map' = resource_map]_vars

AddNodeMaterializesWitness ==
    /\ op = "add_node"
    /\ err = "none"
    /\ Len(arg) = Len(RootPath) + 3
    /\ Len(nodes) = 4
    /\ log = <<<<"Added node", Prefix(arg, Len(arg) - 2)>>,
               <<"Added node", Parent(arg)>>,
               <<"Added node", arg>>>>

(* C6: add_resource materializes missing directories.  After a call        *)
(* add_resource(f) with f below the root, every directory from the root    *)
(* to f's parent has a node, resource_from_path(f) is a resource, and its  *)
(* owning node is node_from_path(f.parent).                                *)
AddResourceMaterializes ==
    (op = "add_resource" /\ is_descendant_of(arg, RootPath))
        => /\ err = "none"
           /\ \A n \in Len(RootPath)..(Len(arg) - 1) : HasNode(Prefix(arg, n))
           /\ resource_from_path(M, arg) # None
           /\ resource_from_path(M, arg) = ret
           /\ resources[ret].source_file = arg
           /\ resources[ret].node = node_from_path(M, Parent(arg))

AddResourceMaterializesWitness ==
    /\ op = "add_resource"
    /\ err = "none"
    /\ Len(arg) = Len(RootPath) + 3
    /\ log = <<<<"Added node", Prefix(arg, Len(arg) - 2)>>,
               <<"Added node", Parent(arg)>>,
               <<"Added resource", arg>>>>

(* C10: paths outside the hierarchy are rejected without effect.           *)
(* add_node on a folder that is neither the root directory nor below it,   *)
(* and add_resource on a file that is not below the root directory, fail   *)
(* with OutOfHierarchy and leave both tables and all lists unchanged;      *)
(* add_node on the root directory returns the root without error.          *)
OutOfHierarchyRejected ==
    [][/\ (op' = "add_node" /\ arg' # RootPath /\ ~is_descendant_of(arg', RootPath))
            => (err' = "OutOfHierarchy" /\ ret' = None /\ ModelUnchanged)
       /\ (op' = "add_resource" /\ ~is_descendant_of(arg', RootPath))
            => (err' = "OutOfHierarchy" /\ ret' = None /\ ModelUnchanged)
       /\ (op' = "add_node" /\ arg' = RootPath)
            => (err' = "none" /\ ret' = RootId /\ ModelUnchanged)]_vars

OutOfHierarchyRejectedWitness ==
    /\ op = "add_resource"
    /\ err = "OutOfHierarchy"
    /\ arg \in OutsidePaths
    /\ Len(nodes) > 1
    /\ Len(resources) > 0

(* C7: load() is correct for every delivery order.  After load() on a      *)
(* fresh RootNode over an existing root directory, whatever the order of   *)
(* the walk's entries, node_from_path(p) is a node exactly when p is a     *)
(* directory of the filesystem (the root included), the node_map keys are  *)
(* the directories below the root and each node's parent is the node of    *)
(* its parent directory: the same for all orders.                          *)
LoadAnyOrder ==
    (op = "load" /\ exists(fs, RootPath))
        => /\ err = "none"
           /\ \A p \in Paths : HasNode(p) <=> p \in fs.dirs
           /\ DOMAIN node_map = fs.dirs \ {RootPath}
           /\ \A p \in DOMAIN node_map :
                 /\ nodes[node_map[p]].source_folder = p
                 /\ nodes[node_map[p]].parent = node_from_path(M, Parent(p))
           /\ Len(nodes) = Cardinality(fs.dirs)

FileBeforeFolder ==
    \E i, j \in DOMAIN arg :
        /\ i < j
        /\ arg[i][1] = "file"
        /\ arg[j] = <<"folder", Parent(arg[i][2])>>
        /\ Parent(arg[i][2]) # RootPath

LoadAnyOrderWitness ==
    /\ op = "load"
    /\ err = "none"
    /\ FileBeforeFolder
    /\ Len(nodes) >= 3

(* C8: after load() on a fresh RootNode every file of the filesystem has a *)
(* resource, whose owning node is the node of the file's parent directory  *)
(* and holds it in its resources list, whatever the delivery order.        *)
LoadResources ==
    (op = "load" /\ exists(fs, RootPath))
        => \A f \in fs.files :
             LET r == resource_from_path(M, f)
             IN /\ r # None
                /\ resources[r].source_file = f
                /\ resources[r].node = node_from_path(M, Parent(f))
                /\ resources[r].node # None
                /\ r \in Range(nodes[resources[r].node].resources)

LoadResourcesWitness ==
    /\ op = "load"
    /\ err = "none"
    /\ FileBeforeFolder
    /\ Cardinality(fs.files) >= 2
    /\ Len(resources) >= 2

(* C9: Node.add_child_node(folder) with a folder whose parent directory is *)
(* not the node's own directory fails with StructuralViolation and leaves  *)
(* the node's child_nodes list (and everything else) unchanged;            *)
(* Node.add_child_resource(file) does the same for the resources list.     *)
NotDirectChildRejected ==
    [][(/\ op' \in {"add_child_node", "add_child_resource"}
        /\ Parent(arg') # nodes[recv'].source_folder)
            => /\ err' = "StructuralViolation"
               /\ ret' = None
               /\ ModelUnchanged]_vars

NotDirectChildRejectedWitness ==
    /\ op = "add_child_node"
    /\ err = "StructuralViolation"
    /\ is_descendant_of(Parent(arg), nodes[recv].source_folder)
    /\ nodes[recv].child_nodes # <<>>
    /\ nodes[recv].resources # <<>>

(* ------------------------ traversal helpers ---------------------------- *)
(* n is a or lies below a, following parent links *)
RECURSIVE IsUnder(_, _)
IsUnder(n, a) ==
    IF n = a THEN TRUE
    ELSE IF nodes[n].parent = None THEN FALSE
    ELSE IsUnder(nodes[n].parent, a)

Subtree(a) == {n \in DOMAIN nodes : IsUnder(n, a)}

Pos(s, x) == CHOOSE i \in DOMAIN s : s[i] = x

(* C11: walk() is a depth-first pre-order traversal.  The sequence yielded *)
(* by n.walk() starts with n, holds every node of n's subtree exactly      *)
(* once, every node after its parent, the children of a node in            *)
(* child_nodes order and each node directly followed by its own subtree;   *)
(* for a root with children [A, B] where A has the child A1 it is          *)
(* [root, A, A1, B].  Walking changes neither the tree nor the tables and  *)
(* a second walk yields the same sequence.                                 *)
PreOrder ==
    /\ ret[1] = recv
    /\ NoDup(ret)
    /\ Range(ret) = Subtree(recv)
    /\ \A i \in 2..Len(ret) :
          \E j \in 1..(i - 1) : ret[j] = nodes[ret[i]].parent
    /\ \A i \in DOMAIN ret :
          /\ \A j \in DOMAIN ret :
                 IsUnder(ret[j], ret[i])
                     <=> (i <= j /\ j < i + Cardinality(Subtree(ret[i])))
          /\ \A k, l \in DOMAIN nodes[ret[i]].child_nodes :
                 k < l => Pos(ret, nodes[ret[i]].child_nodes[k])
                            < Pos(ret, nodes[ret[i]].child_nodes[l])
    /\ (/\ recv = RootId
        /\ Len(nodes) = 4
        /\ Len(nodes[RootId].child_nodes) = 2
        /\ Len(nodes[nodes[RootId].child_nodes[1]].child_nodes) = 1)
           => ret = <<RootId,
                      nodes[RootId].child_nodes[1],
                      nodes[nodes[RootId].child_nodes[1]].child_nodes[1],
                      nodes[RootId].child_nodes[2]>>

WalkPreOrder ==
    [][/\ op' = "walk" => (PreOrder' /\ ModelUnchanged)
       /\ (op = "walk" /\ op' = "walk" /\ recv' = recv) => ret' = ret]_vars

WalkPreOrderWitness ==
    /\ op = "walk"
    /\ recv = RootId
    /\ Len(nodes) = 4
    /\ Len(nodes[RootId].child_nodes) = 2
    /\ ret = <<1, 2, 4, 3>>

(* C12: walk_resources() yields, for each node in walk() order, that       *)
(* node's resources in resources-list order: the sequence holds every      *)
(* resource of the subtree exactly once, the resources of a node that      *)
(* comes earlier in the walk before those of a later node, and the         *)
(* resources of one node in the order of its list.                         *)
ResOrder(n, r) == Pos(nodes[n].resources, r)

WalkResourcesOrder ==
    op = "walk_resources"
        => LET w == walk(M, recv)
           IN /\ NoDup(ret)
              /\ Range(ret) = {r \in DOMAIN resources : IsUnder(resources[r].node, recv)}
              /\ \A i, j \in DOMAIN ret :
                    i < j =>
                      LET ni == resources[ret[i]].node
                          nj == resources[ret[j]].node
                      IN \/ Pos(w, ni) < Pos(w, nj)
                         \/ ni = nj /\ ResOrder(ni, ret[i]) < ResOrder(ni, ret[j])

WalkResourcesOrderWitness ==
    /\ op = "walk_resources"
    /\ recv = RootId
    /\ Len(ret) >= 3
    /\ \E i \in 1..(Len(ret) - 1) : ret[i] > ret[i + 1]
    /\ \E i \in 1..(Len(ret) - 1) : resources[ret[i]].node = resources[ret[i + 1]].node

(* C13: node structure.  Every node in the child_nodes list of a node m   *)
(* has m as parent and a directory exactly one segment below m's           *)
(* directory; a node's root is its parent's root, the root node's root is  *)
(* itself, so all nodes share one root.                                    *)
NodeStructure ==
    /\ \A m \in DOMAIN nodes : \A k \in DOMAIN nodes[m].child_nodes :
          LET n == nodes[m].child_nodes[k]
          IN /\ nodes[n].parent = m
             /\ Parent(nodes[n].source_folder) = nodes[m].source_folder
             /\ Len(nodes[n].source_folder) = Len(nodes[m].source_folder) + 1
    /\ \A n \in DOMAIN nodes :
          /\ nodes[n].root = (IF nodes[n].parent = None THEN n
                              ELSE nodes[nodes[n].parent].root)
          /\ nodes[n].root = RootId
          /\ n # RootId => n \in Range(nodes[nodes[n].parent].child_nodes)
    /\ nodes[RootId].parent = None

NodeStructureWitness ==
    /\ Len(nodes) = 4
    /\ \E n \in DOMAIN nodes :
          /\ nodes[n].parent \notin {None, RootId}
          /\ nodes[nodes[n].parent].parent \notin {None, RootId}
    /\ op = "add_resource"
    /\ err = "none"

(* C17: lookups are stable.  Once node_from_path(p) yields a node it       *)
(* yields that node in every later state, and once resource_from_path(f)   *)
(* yields a resource it yields that resource in every later state.         *)
LookupsStable ==
    [][\A p \in Paths :
          /\ node_from_path(M, p) # None
                => (node_from_path(M, p))' = node_from_path(M, p)
          /\ resource_from_path(M, p) # None
                => (resource_from_path(M, p))' = resource_from_path(M, p)]_vars

(* C18: the upward search of add_node terminates.  For every folder below  *)
(* the root without a node the search ends after at most as many steps as  *)
(* the folder lies below the root, at the root or at a mapped directory,   *)
(* and every directory it records lies below the root.                     *)
ClimbTerminates ==
    /\ \A p \in InsidePaths :
          ~HasNode(p) =>
             LET c == Climb(M, p, <<>>)
                 k == Len(c.hierarchy)
             IN /\ c.parent # Diverged
                /\ k <= Len(p) - Len(RootPath)
                /\ \A i \in 1..k : is_descendant_of(c.hierarchy[i], RootPath)
                /\ c.parent # None
                /\ c.parent = node_from_path(M, Parent(c.hierarchy[k]))
    /\ (op = "add_node" /\ is_descendant_of(arg, RootPath))
          => /\ err = "none"
             /\ Len(log) <= Len(arg) - Len(RootPath)
             /\ \A i \in DOMAIN log : is_descendant_of(log[i][2], RootPath)

ClimbTerminatesWitness ==
    /\ op = "add_node"
    /\ err = "none"
    /\ Len(arg) = Len(RootPath) + 3
    /\ Len(log) = 2
    /\ log[1][1] = "Added node"
    /\ \E p \in InsidePaths :
          /\ ~HasNode(p)
          /\ Climb(M, p, <<>>).parent = RootId
          /\ Len(Climb(M, p, <<>>).hierarchy) = 3

(* C19: materialization never violates the direct-child check.  No call   *)
(* of add_node or add_resource ends with the direct-descendant error, and  *)
(* one with a path below the root ends without error.                      *)
NoStructuralViolation ==
    op \in {"add_node", "add_resource"}
        => /\ err # "StructuralViolation"
           /\ is_descendant_of(arg, RootPath) => err = "none"

NoStructuralViolationWitness ==
    /\ op = "add_resource"
    /\ err = "none"
    /\ Len(nodes) = 4
    /\ Len(log) = 3
    /\ nodes[resources[ret].node].parent # RootId
    /\ Len(nodes[RootId].child_nodes) = 2

(* C14: load() on a missing root directory fails with MissingSource       *)
(* before any entry is visited: both tables and all lists stay as they     *)
(* were and nothing is logged.                                             *)
LoadMissingSource ==
    [][(op' \in {"load", "reload"} /\ ~exists(fs', RootPath))
            => /\ err' = "MissingSource"
               /\ ret' = None
               /\ log' = <<>>
               /\ ModelUnchanged]_vars

LoadMissingSourceWitness ==
    /\ op = "reload"
    /\ err = "MissingSource"
    /\ Len(nodes) > 1
    /\ Len(resources) > 0

(* the file <directory of the receiver>/name of the last get_resource call *)
AskedFile == child(nodes[recv].source_folder, arg[1])

(* C15 as claimed: get_resource(name) returns the resource of the file     *)
(* <node directory>/name whenever that file exists on the filesystem, and  *)
(* null otherwise, in every state.                                         *)
GetResourceWheneverFileExists ==
    op = "get_resource"
        => IF AskedFile \in fs.files
           THEN ret # None /\ resources[ret].source_file = AskedFile
           ELSE ret = None

(* C15 as amended: get_resource(name) returns what the root's resource     *)
(* table holds for <node directory>/name when the file exists on the       *)
(* filesystem: its resource, owned by the receiving node, once the file    *)
(* was added to the tree, null before; it returns null when the file does  *)
(* not exist.                                                              *)
GetResourceFromTable ==
    op = "get_resource"
        => IF AskedFile \in fs.files
           THEN IF AskedFile \in DOMAIN resource_map
                THEN /\ ret = resource_map[AskedFile]
                     /\ resources[ret].source_file = AskedFile
                     /\ resources[ret].node = recv
                ELSE ret = None
           ELSE ret = None

GetResourceFromTableWitness ==
    /\ op = "get_resource"
    /\ ret # None
    /\ recv # RootId
    /\ resources[ret].node = recv
    /\ AskedFile \in fs.files

(* C16: re-running load() on an unchanged filesystem completes without     *)
(* error and leaves node_map, resource_map and the sequences of walk() and *)
(* walk_resources() as they were after the first load.                     *)
ReloadChangesNothing ==
    [][(op = "load" /\ err = "none" /\ op' = "reload" /\ exists(fs, RootPath))
            => /\ err' = "none"
               /\ node_map' = node_map
               /\ resource_map' = resource_map
               /\ (walk(M, RootId))' = walk(M, RootId)
               /\ (walk_resources(M, RootId))' = walk_resources(M, RootId)]_vars

====
